---- MODULE Spec2Model ----
(***************************************************************************)
(* Model of retirement_planner.py: the month-by-month projection computed *)
(* by calculate_retirement_plan and the parts of main that feed it (the   *)
(* lump-sum text parser) and read it (the goal report).                    *)
(*                                                                         *)
(* Amounts are integers.  The rates are drawn from {0, 1200} percent per   *)
(* year, for which annual / 12 / 100 is exactly 0 or 1, so every product   *)
(* the code forms is an exact integer, in the model and in IEEE doubles.   *)
(* The one true division, balance / inflation_multiplier, is kept as an    *)
(* exact fraction <<numerator, denominator>> in lowest terms.              *)
(***************************************************************************)
EXTENDS Integers, Sequences, FiniteSets, TLC

\* ---------------------------------------------------------------- bounds
MaxYears == 1
MaxAmount == 1
MaxLen == 5

\* ------------------------------------------------------------ input sets
None == <<>>
Some(v) == <<v>>

Rates == {0, 1200}
Amounts == 0..MaxAmount
LumpAmounts == {-MaxAmount, MaxAmount}
LumpMonths == {0, 6, 12}
Targets == {0, 1, 12}
Alphabet == {"1", ":", ",", "x", "-", " "}
SampleTexts == {<<>>, <<"1", ":", "1">>, <<"x">>}
Digits == {"0", "1", "2", "3", "4", "5", "6", "7", "8", "9"}

VARIABLES
    \* parameters of calculate_retirement_plan / widget values of main
    current_age, retirement_age, target_fund, annual_growth, annual_inflation,
    monthly_contribution, monthly_withdrawal, lump_sums, years,
    inflation_adjusted_withdrawals,
    \* locals of calculate_retirement_plan
    month, balance, inflation_multiplier, contribution_total, retirement_month,
    balances, real_balances, cumulative_contributions, withdrawals,
    goal_progress,
    \* result of calculate_retirement_plan
    df,
    \* main
    lump_years, warned, message,
    \* control
    pc

params == <<current_age, retirement_age, target_fund, annual_growth,
            annual_inflation, monthly_contribution, monthly_withdrawal,
            years, inflation_adjusted_withdrawals>>
locals == <<month, balance, inflation_multiplier, contribution_total,
            retirement_month, balances, real_balances,
            cumulative_contributions, withdrawals, goal_progress>>
ui == <<lump_years, warned, message>>
vars == <<params, lump_sums, locals, df, ui, pc>>

\* ------------------------------------------------------- pure arithmetic
Abs(x) == IF x < 0 THEN -x ELSE x

RECURSIVE GCD(_, _)
GCD(a, b) == IF b = 0 THEN a ELSE GCD(b, a % b)

\* a / b as an exact fraction in lowest terms (b > 0)
Divide(a, b) ==
    LET g == GCD(Abs(a), b) IN <<a \div g, b \div g>>

MonthlyRate(annual) == (annual \div 12) \div 100

Months(y) == y * 12

Truthy(opt) == opt # None /\ opt[1] # 0

RetirementMonth(ret, cur) ==
    IF Truthy(ret) THEN Some((ret[1] - cur) * 12) ELSE None

LumpAt(ls, m) == IF m \in DOMAIN ls THEN ls[m] ELSE 0

Accumulating(rm, m) == rm = None \/ m < rm[1]

Withdrawal(mw, mult, adj) == IF adj THEN mw * mult ELSE mw

ApplyWithdrawal_Floor(bal, w) == IF bal - w < 0 THEN 0 ELSE bal - w
ApplyWithdrawal(bal, w) == bal - w

Grow(bal, rate) == bal * (1 + rate)

NextTotal_NoLump(total, lump, contributing, mc) ==
    IF contributing THEN total + mc ELSE total
NextTotal(total, lump, contributing, mc) ==
    IF contributing THEN total + lump + mc ELSE total + lump

Compound_Additive(mult, rate) == mult + rate
Compound(mult, rate) == mult * (1 + rate)

\* line 76: the conditional expression; it raises TypeError when
\* target_fund is falsy and retirement_month is None
GoalRaises(target, rm) == target = 0 /\ rm = None

GoalReached_Strict(bal, target, m, rm) ==
    IF target # 0 THEN bal > target ELSE m >= rm[1]
GoalReached(bal, target, m, rm) ==
    IF target # 0 THEN bal >= target ELSE m >= rm[1]

AgeAt_Late(cur, m) == cur + (m + 11) \div 12
AgeAt(cur, m) == cur + m \div 12

\* ------------------------------------------------ text handling of main
RECURSIVE SplitFrom(_, _, _)
SplitFrom(s, sep, cur) ==
    IF s = <<>> THEN <<cur>>
    ELSE IF Head(s) = sep THEN <<cur>> \o SplitFrom(Tail(s), sep, <<>>)
    ELSE SplitFrom(Tail(s), sep, Append(cur, Head(s)))

\* str.split(sep): "" splits into [""]
Split(s, sep) == SplitFrom(s, sep, <<>>)

Contains(s, c) == \E i \in 1..Len(s) : s[i] = c

RECURSIVE LStrip(_)
LStrip(s) ==
    IF s # <<>> /\ Head(s) = " " THEN LStrip(Tail(s)) ELSE s

RECURSIVE RStrip(_)
RStrip(s) ==
    IF s # <<>> /\ s[Len(s)] = " " THEN RStrip(SubSeq(s, 1, Len(s) - 1)) ELSE s

Strip(s) == RStrip(LStrip(s))

DigitVal(c) ==
    CASE c = "0" -> 0 [] c = "1" -> 1 [] c = "2" -> 2 [] c = "3" -> 3
      [] c = "4" -> 4 [] c = "5" -> 5 [] c = "6" -> 6 [] c = "7" -> 7
      [] c = "8" -> 8 [] c = "9" -> 9

AllDigits(s) == s # <<>> /\ \A i \in 1..Len(s) : s[i] \in Digits

RECURSIVE DecVal(_)
DecVal(s) ==
    IF s = <<>> THEN 0
    ELSE DecVal(SubSeq(s, 1, Len(s) - 1)) * 10 + DigitVal(s[Len(s)])

\* int(text) / float(text) on the alphabet of the model: an optional sign and
\* one or more digits; anything else raises ValueError
IsNumber(s) ==
    IF s # <<>> /\ Head(s) = "-" THEN AllDigits(Tail(s)) ELSE AllDigits(s)

NumVal(s) == IF Head(s) = "-" THEN -DecVal(Tail(s)) ELSE DecVal(s)

Put(d, k, v) == [x \in (DOMAIN d) \cup {k} |-> IF x = k THEN v ELSE d[x]]

EmptyDict == [x \in {} |-> 0]

\* the body of "y, a = pair.split(':'); lump_sums[int(y)*12] = float(a)" raises
PairRaises(pair) ==
    LET parts == Split(pair, ":") IN
        \/ Len(parts) # 2
        \/ ~IsNumber(Strip(parts[1]))
        \/ ~IsNumber(Strip(parts[2]))

\* lines 160-167: the for loop inside one try; the first exception ends the
\* loop and produces the warning, keeping what was stored before it
RECURSIVE ParseLumpSums(_, _)
ParseLumpSums(pairs, acc) ==
    IF pairs = <<>> THEN [lump_sums |-> acc, warned |-> FALSE]
    ELSE LET pair == Head(pairs) IN
        IF ~Contains(pair, ":") THEN ParseLumpSums(Tail(pairs), acc)
        ELSE IF PairRaises(pair) THEN [lump_sums |-> acc, warned |-> TRUE]
        ELSE LET parts == Split(pair, ":") IN
            ParseLumpSums(Tail(pairs),
                Put(acc, NumVal(Strip(parts[1])) * 12, NumVal(Strip(parts[2]))))

\* ---------------------------------------------- calculate_retirement_plan
\* lines 31-49: the locals before the first iteration
EnterEngine ==
    /\ month' = 0
    /\ balance' = 0
    /\ inflation_multiplier' = 1
    /\ contribution_total' = 0
    /\ retirement_month' = RetirementMonth(retirement_age, current_age)
    /\ balances' = <<>>
    /\ real_balances' = <<>>
    /\ cumulative_contributions' = <<>>
    /\ withdrawals' = <<>>
    /\ goal_progress' = <<>>

\* lines 52-77: one iteration of the simulation loop.  The appends of lines
\* 73-75 precede the conditional expression of line 76, which may raise.
Step ==
    /\ pc = "loop"
    /\ month <= Months(years)
    /\ LET lump == LumpAt(lump_sums, month)
           contributing == Accumulating(retirement_month, month)
           withdrawal == Withdrawal(monthly_withdrawal, inflation_multiplier,
                                    inflation_adjusted_withdrawals)
           cash == IF contributing
                   THEN balance + lump + monthly_contribution
                   ELSE ApplyWithdrawal(balance + lump, withdrawal)
           grown == Grow(cash, MonthlyRate(annual_growth))
       IN /\ balance' = grown
          /\ contribution_total' =
                NextTotal(contribution_total, lump, contributing, monthly_contribution)
          /\ withdrawals' = IF contributing THEN withdrawals
                            ELSE Append(withdrawals, withdrawal)
          /\ balances' = Append(balances, grown)
          /\ real_balances' =
                Append(real_balances, Divide(grown, inflation_multiplier))
          /\ cumulative_contributions' =
                Append(cumulative_contributions, contribution_total')
          /\ IF GoalRaises(target_fund, retirement_month)
             THEN /\ pc' = "raised"
                  /\ UNCHANGED <<goal_progress, inflation_multiplier, month>>
             ELSE /\ goal_progress' =
                        Append(goal_progress,
                               GoalReached(grown, target_fund, month, retirement_month))
                  /\ inflation_multiplier' =
                        Compound(inflation_multiplier, MonthlyRate(annual_inflation))
                  /\ month' = month + 1
                  /\ pc' = "loop"
    /\ UNCHANGED <<params, lump_sums, retirement_month, df, ui>>

\* lines 80-88: the columns of the DataFrame
Return ==
    /\ pc = "loop"
    /\ month > Months(years)
    /\ df' = [Month |-> [i \in 1..(Months(years) + 1) |-> i - 1],
              Age |-> [i \in 1..(Months(years) + 1) |-> AgeAt(current_age, i - 1)],
              TotalValue |-> balances,
              InflationAdjustedValue |-> real_balances,
              CumulativeContributions |-> cumulative_contributions,
              ReachedGoal |-> goal_progress]
    /\ pc' = "returned"
    /\ UNCHANGED <<params, lump_sums, locals, ui>>

NoFrame == [Month |-> <<>>, Age |-> <<>>, TotalValue |-> <<>>,
            InflationAdjustedValue |-> <<>>, CumulativeContributions |-> <<>>,
            ReachedGoal |-> <<>>]

Dicts == UNION {[ks -> LumpAmounts] : ks \in SUBSET LumpMonths}

\* a direct call of calculate_retirement_plan with a configuration of the
\* documented domain; the state is the one before the first iteration
Init ==
    /\ current_age \in {0, 1}
    /\ retirement_age \in {None, Some(0), Some(1), Some(2)}
    /\ target_fund \in Targets
    /\ annual_growth \in Rates
    /\ annual_inflation \in Rates
    /\ monthly_contribution \in Amounts
    /\ monthly_withdrawal \in Amounts
    /\ lump_sums \in Dicts
    /\ years \in 1..MaxYears
    /\ inflation_adjusted_withdrawals \in BOOLEAN
    /\ month = 0
    /\ balance = 0
    /\ inflation_multiplier = 1
    /\ contribution_total = 0
    /\ retirement_month = RetirementMonth(retirement_age, current_age)
    /\ balances = <<>>
    /\ real_balances = <<>>
    /\ cumulative_contributions = <<>>
    /\ withdrawals = <<>>
    /\ goal_progress = <<>>
    /\ df = NoFrame
    /\ lump_years = <<>>
    /\ warned = FALSE
    /\ message = [kind |-> "none"]
    /\ pc = "loop"

Next == Step \/ Return

Spec == Init /\ [][Next]_vars

\* ------------------------------------------------------------------ main
\* lines 160-167
ParseInput ==
    /\ pc = "input"
    /\ LET r == ParseLumpSums(Split(lump_years, ","), EmptyDict)
       IN /\ lump_sums' = r.lump_sums
          /\ warned' = r.warned
    /\ pc' = "button"
    /\ UNCHANGED <<params, locals, df, lump_years, message>>

\* lines 170-182: the button was pressed; the engine is called
PressButton ==
    /\ pc = "button"
    /\ EnterEngine
    /\ pc' = "loop"
    /\ UNCHANGED <<params, lump_sums, df, ui>>

\* line 170: the button was not pressed; the script run ends
NoButton ==
    /\ pc = "button"
    /\ pc' = "idle"
    /\ UNCHANGED <<params, lump_sums, locals, df, ui>>

Reached(frame) == {i \in 1..Len(frame.ReachedGoal) : frame.ReachedGoal[i]}

Lowest(S) == CHOOSE i \in S : \A j \in S : i <= j
Highest(S) == CHOOSE i \in S : \A j \in S : i >= j

\* reached.iloc[0]: the position of the first row of df[df["Reached Goal"]]
FirstHit_Last(frame) == Highest(Reached(frame))
FirstHit(frame) == Lowest(Reached(frame))

\* lines 184-199
Report ==
    /\ pc = "returned"
    /\ message' =
          IF target_fund > 0
          THEN IF Reached(df) # {}
               THEN LET months_to_goal == df.Month[FirstHit(df)]
                    IN [kind |-> "success",
                        months_to_goal |-> months_to_goal,
                        years |-> months_to_goal \div 12,
                        months |-> months_to_goal % 12]
               ELSE [kind |-> "warning"]
          ELSE [kind |-> "info"]
    /\ pc' = "done"
    /\ UNCHANGED <<params, lump_sums, locals, df, lump_years, warned>>

Texts == UNION {[1..n -> Alphabet] : n \in 0..MaxLen}

\* the widget values main reads (ages are at least 18, so retirement_age is
\* never falsy) with an empty mapping before parsing
MainInputs ==
    /\ retirement_age \in {Some(18), Some(19), Some(20)}
    /\ lump_sums = EmptyDict
    /\ month = 0
    /\ balance = 0
    /\ inflation_multiplier = 1
    /\ contribution_total = 0
    /\ retirement_month = None
    /\ balances = <<>>
    /\ real_balances = <<>>
    /\ cumulative_contributions = <<>>
    /\ withdrawals = <<>>
    /\ goal_progress = <<>>
    /\ df = NoFrame
    /\ warned = FALSE
    /\ message = [kind |-> "none"]
    /\ pc = "input"

MainInit ==
    /\ MainInputs
    /\ current_age \in {18, 19}
    /\ target_fund \in Targets
    /\ annual_growth \in Rates
    /\ annual_inflation \in Rates
    /\ monthly_contribution \in Amounts
    /\ monthly_withdrawal \in Amounts
    /\ years \in 1..MaxYears
    /\ inflation_adjusted_withdrawals \in BOOLEAN
    /\ lump_years \in SampleTexts

MainNext == ParseInput \/ PressButton \/ NoButton \/ Step \/ Return \/ Report

MainSpec == MainInit /\ [][MainNext]_vars

\* main with every text of the alphabet up to MaxLen characters
ParseInit ==
    /\ MainInputs
    /\ current_age = 18
    /\ target_fund \in {0, 12}
    /\ annual_growth = 0
    /\ annual_inflation = 0
    /\ monthly_contribution = 1
    /\ monthly_withdrawal = 1
    /\ years = 1
    /\ inflation_adjusted_withdrawals = FALSE
    /\ lump_years \in Texts

ParseSpec == ParseInit /\ [][MainNext]_vars

\* =============================================================== claims
RECURSIVE Pow(_, _)
Pow(b, e) == IF e = 0 THEN 1 ELSE b * Pow(b, e - 1)

\* inflation_multiplier(m) = (1 + annual_inflation/12/100)^m
MultiplierAt(m) == Pow(1 + annual_inflation \div 1200, m)

RECURSIVE LumpsThrough(_)
LumpsThrough(m) ==
    IF m < 0 THEN 0
    ELSE LumpsThrough(m - 1) + (IF m \in DOMAIN lump_sums THEN lump_sums[m] ELSE 0)

InWithdrawalPhase(m) == retirement_month # None /\ m >= retirement_month[1]

\* C1: every recorded Total Value obeys balance[m] = (balance[m-1] + lump(m)
\* + flow(m)) * (1 + annual_growth/12/100) with balance[-1] = 0, flow(m) the
\* monthly contribution in the accumulation phase and minus the (possibly
\* inflation-scaled) withdrawal otherwise, with no floor at zero.
C1_Recurrence ==
    \A i \in 1..Len(balances) :
        LET m == i - 1
            prev == IF i = 1 THEN 0 ELSE balances[i - 1]
            lump == IF m \in DOMAIN lump_sums THEN lump_sums[m] ELSE 0
            flow == IF ~InWithdrawalPhase(m) THEN monthly_contribution
                    ELSE IF inflation_adjusted_withdrawals
                         THEN -(monthly_withdrawal * MultiplierAt(m))
                         ELSE -monthly_withdrawal
        IN balances[i] = (prev + lump + flow) * (1 + annual_growth \div 1200)

\* a run with growth in which contributions were made and a later withdrawal
\* took a non-negative balance below zero
C1_Witness ==
    /\ pc = "returned"
    /\ annual_growth = 1200
    /\ Len(withdrawals) > 0
    /\ Len(withdrawals) < Len(balances)
    /\ \E i \in 2..Len(balances) :
          InWithdrawalPhase(i - 1) /\ balances[i - 1] >= 0 /\ balances[i] < 0

\* C2: the returned projection has years*12 + 1 records in every one of its
\* six columns, with Month = i and Age = current_age + i div 12 at position i.
C2_Shape ==
    pc = "returned" =>
        LET n == years * 12 + 1 IN
            /\ Len(df.Month) = n
            /\ Len(df.Age) = n
            /\ Len(df.TotalValue) = n
            /\ Len(df.InflationAdjustedValue) = n
            /\ Len(df.CumulativeContributions) = n
            /\ Len(df.ReachedGoal) = n
            /\ \A i \in 0..(n - 1) :
                  /\ df.Month[i + 1] = i
                  /\ df.Age[i + 1] = current_age + i \div 12

\* a one-year projection was returned: 13 records, the last one a year older
C2_Witness ==
    /\ pc = "returned"
    /\ years = 1
    /\ Len(df.TotalValue) = 13
    /\ df.Age[13] = current_age + 1
    /\ df.Age[12] = current_age

\* C3: the recorded Reached Goal flag of month m is balance[m] >= target_fund
\* when target_fund > 0, and m >= (retirement_age - current_age) * 12
\* otherwise, balance[m] being the post-growth balance recorded for month m.
C3_GoalFlag ==
    /\ \A i \in 1..Len(goal_progress) :
          goal_progress[i] =
              IF target_fund > 0 THEN balances[i] >= target_fund
              ELSE (i - 1) >= (retirement_age[1] - current_age) * 12
    /\ pc = "returned" => df.ReachedGoal = goal_progress

\* a returned projection with a target whose flag is set in one month, at a
\* balance equal to the target, and cleared in a later one
C3_Witness ==
    /\ pc = "returned"
    /\ target_fund > 0
    /\ \E i, j \in 1..Len(goal_progress) :
          /\ i < j
          /\ goal_progress[i]
          /\ balances[i] = target_fund
          /\ ~goal_progress[j]

\* C4: when retirement_age equals current_age, retirement_month is 0 and in
\* every simulated month no monthly contribution has been added and a
\* withdrawal has been subtracted.
C4_NoAccumulation ==
    (retirement_age # None /\ retirement_age[1] = current_age
        /\ Len(balances) > 0) =>
        /\ retirement_month = Some(0)
        /\ Len(withdrawals) = Len(balances)
        /\ \A i \in 1..Len(cumulative_contributions) :
              cumulative_contributions[i] = LumpsThrough(i - 1)

\* C5: calculate_retirement_plan never raises on a configuration of the
\* documented domain.
C5_Total == pc # "raised"

\* C6: Cumulative Contributions never decreases from one month to the next.
C6_Monotone ==
    \A i \in 2..Len(cumulative_contributions) :
        cumulative_contributions[i] >= cumulative_contributions[i - 1]

HitMonths == {m \in 0..(Len(df.TotalValue) - 1) : df.TotalValue[m + 1] >= target_fund}

\* C7: with target_fund > 0 main reports the smallest month whose Total Value
\* is at least the target, as months div 12 years and months mod 12 months;
\* the warning when there is no such month; with target_fund = 0 only the
\* retirement-age message.
C7_Report ==
    pc = "done" =>
        IF target_fund > 0
        THEN IF HitMonths # {}
             THEN /\ message.kind = "success"
                  /\ message.months_to_goal \in HitMonths
                  /\ \A m \in HitMonths : message.months_to_goal <= m
                  /\ message.years = message.months_to_goal \div 12
                  /\ message.months = message.months_to_goal % 12
             ELSE message = [kind |-> "warning"]
        ELSE message = [kind |-> "info"]

\* the goal was reported at a month after which the balance fell below it
C7_Witness ==
    /\ pc = "done"
    /\ message.kind = "success"
    /\ message.months_to_goal > 0
    /\ \E m \in 0..(Len(df.TotalValue) - 1) :
          m > message.months_to_goal /\ df.TotalValue[m + 1] < target_fund

\* C8: with annual_growth = 0, in every accumulation month the recorded Total
\* Value equals Cumulative Contributions, the sum of the monthly
\* contributions and lump sums of months 0..m.
C8_NoGrowth ==
    annual_growth = 0 =>
        \A i \in 1..Len(balances) :
            ~InWithdrawalPhase(i - 1) =>
                /\ balances[i] = cumulative_contributions[i]
                /\ cumulative_contributions[i] =
                      i * monthly_contribution + LumpsThrough(i - 1)

\* a run without growth that recorded an accumulation month holding both
\* monthly contributions and a lump sum
C8_Witness ==
    /\ pc = "returned"
    /\ annual_growth = 0
    /\ monthly_contribution > 0
    /\ \E i \in 2..Len(balances) :
          /\ ~InWithdrawalPhase(i - 1)
          /\ LumpsThrough(i - 1) # 0
          /\ balances[i] > 0

\* C9: Inflation-Adjusted Value[m] = Total Value[m] / inflation_multiplier(m)
\* with inflation_multiplier(0) = 1 and one compounding per month, the
\* multiplier of month m excluding month m's own inflation; so it equals the
\* nominal value at month 0, and at every month when annual_inflation is 0.
C9_RealBalance ==
    \A i \in 1..Len(real_balances) :
        /\ real_balances[i] = Divide(balances[i], MultiplierAt(i - 1))
        /\ (i = 1 \/ annual_inflation = 0) => real_balances[i] = <<balances[i], 1>>

\* a run with inflation whose real value is a proper fraction of the nominal
C9_Witness ==
    /\ pc = "returned"
    /\ annual_inflation = 1200
    /\ \E i \in 3..Len(real_balances) :
          /\ balances[i] # 0
          /\ real_balances[i][2] > 1

Entries == Split(lump_years, ",")

ColonCount(e) == Cardinality({i \in 1..Len(e) : e[i] = ":"})

ValidEntry(e) ==
    /\ ColonCount(e) = 1
    /\ IsNumber(Strip(Split(e, ":")[1]))
    /\ IsNumber(Strip(Split(e, ":")[2]))

MalformedEntry(e) == Strip(e) # <<>> /\ ~ValidEntry(e)

\* C10: after parsing, every malformed entry of the text has caused the
\* warning, and the mapping handed to the engine holds every valid entry
\* 'y:a' of the text under key y*12 with value a.
C10_BestEffort ==
    pc \in {"button", "loop"} =>
        /\ (\E k \in 1..Len(Entries) : MalformedEntry(Entries[k])) => warned
        /\ \A k \in 1..Len(Entries) :
              ValidEntry(Entries[k]) =>
                  LET parts == Split(Entries[k], ":")
                      key == NumVal(Strip(parts[1])) * 12
                  IN /\ key \in DOMAIN lump_sums
                     /\ lump_sums[key] = NumVal(Strip(parts[2]))

====
